---- MODULE Spec2Model ----
(***************************************************************************)
(* The gosuv supervisor (web.go): the registry of programs (names, pgMap,  *)
(* procMap) guarded by mu, the reconciliation done by loadDB and           *)
(* addOrUpdateProgram, the blocking stopAndWait, the asynchronous update   *)
(* goroutine, the HTTP handlers that add, start and stop programs, and the *)
(* global event broadcaster.  The process controller (Process, its state   *)
(* machine and IsRunning), Program.Check and WriteBroadcaster are not part *)
(* of web.go; they are modelled from the design document.                  *)
(***************************************************************************)
EXTENDS Integers, Sequences, FiniteSets, TLC

\* ---------------------------------------------------------------- bounds
MaxProcs   == 3   \* controllers ever constructed by newProcess
MaxUpd     == 2   \* update goroutines alive at the same time
HistCap    == 5   \* messages the history buffer of eventB keeps
MaxCfgLen  == 2   \* entries of a programs.yml
QueueCap   == 1   \* undelivered messages a listener's queue holds
MaxRetries == 1   \* StartRetries of every program
MaxLoads   == 3   \* loadDB calls (start-up and reloads) in Spec
MaxReqs    == 1   \* start and stop requests in Spec
FairLoads  == 2   \* loadDB calls in FairSpec
FairReqs   == 2   \* start and stop requests in FairSpec
AddLoads   == 2   \* loadDB calls in SpecAdd
AddReqs    == 1   \* start and stop requests in SpecAdd
MaxAdds    == 1   \* add requests in SpecAdd
TwoLoads   == 2   \* loadDB calls in SpecTwo
TwoReqs    == 1   \* start and stop requests in SpecTwo
CloseLoads == 2   \* loadDB calls in SpecClose
CloseReqs  == 1   \* start and stop requests in SpecClose

\* Command 0 is the empty command, which Program.Check rejects.
Cmds == {0, 1, 2}

VARIABLES
    env,      \* the environment: the program names it uses, the calls
              \* (loadDB, start/stop requests, add requests) it may still
              \* make, and whether newSupervisorHandler has returned the
              \* handler (up)
    names,    \* Supervisor.names
    pgMap,    \* Supervisor.pgMap: name -> Program
    procMap,  \* Supervisor.procMap: name -> controller (index into procs)
    mu,       \* Supervisor.mu: "free" or the worker holding it
    eventB,   \* Supervisor.eventB: the last HistCap messages written to it
    subs,     \* per stopAndWait caller: -1 not listening, else queued messages
    procs,    \* the heap of controllers built by newProcess
    ld,       \* the worker running loadDB; src and dup record what the
              \* programs.yml it read was
    ad,       \* the worker running hAddProgram
    upd,      \* the goroutines started by addOrUpdateProgram
    lastLoaded, \* the list the last successful loadDB reconciled, unless a
                \* program was added since
    cl,       \* the worker running Close
    rq,       \* the last start or stop request and the status it answered
    listeners \* the number of listeners registered on eventB

vars == <<env, names, pgMap, procMap, mu, eventB, subs, procs, ld, ad, upd,
          lastLoaded, cl, rq, listeners>>
registry == <<names, pgMap, procMap>>

\* ---------------------------------------------------------------- values
Program   == [Name : env.names, Command : Cmds]
NoProgram == [Name |-> "", Command |-> 0]
Configs   == UNION {[1..n -> Program] : n \in 0..MaxCfgLen}
EmptyMap  == [x \in {} |-> 0]
Updaters  == 1..MaxUpd
Loader    == 0
Closer    == MaxUpd + 1
Waiters   == {Loader} \cup Updaters \cup {Closer}

MapSet(m, k, v) == [x \in DOMAIN m \cup {k} |-> IF x = k THEN v ELSE m[x]]
MapDel(m, k)    == [x \in DOMAIN m \ {k} |-> m[x]]
Min(a, b)       == IF a < b THEN a ELSE b
Range(s)        == {s[j] : j \in DOMAIN s}
Last(k, s)      == SubSeq(s, Len(s) - Min(k, Len(s)) + 1, Len(s))

\* ------------------------------------------------- Program and controller
\* Program.Check: name and command must be non-empty.
Check(pg) == pg.Name # "" /\ pg.Command # 0

\* reflect.DeepEqual on two Programs.
DeepEqual(a, b) == a = b

StartRetries(pg) == MaxRetries

\* Process.IsRunning: true exactly in Starting and Running.
IsRunning(ps, p) == ps[p].state \in {"Starting", "Running"}

\* ------------------------------------------------------------ broadcaster
AddedEvent(n)   == [n |-> n, k |-> "added",   a |-> "", b |-> ""]
UpdateEvent(n)  == [n |-> n, k |-> "update",  a |-> "", b |-> ""]
DeletedEvent(n) == [n |-> n, k |-> "deleted", a |-> "", b |-> ""]
\* The message "<name> state: <a> -> <b>" of the StateChange hook that
\* newProcess installs.
StateEvent(n, a, b) == [n |-> n, k |-> "state", a |-> a, b |-> b]

\* WriteBroadcaster.Write as seen by the listeners: every attached queue
\* gets the message unless it is full.
Deliver(sb, k) ==
    [w \in DOMAIN sb |-> IF sb[w] >= 0 THEN Min(sb[w] + k, QueueCap) ELSE sb[w]]

\* addStatusChangeListener: a new queue, seeded with the history.
addStatusChangeListener(sb, w) == [sb EXCEPT ![w] = Min(Len(eventB), QueueCap)]

\* broadcastEvent, for the messages evs written by one step; sb is the
\* listener table the step leaves.
broadcastEvent(evs, sb) ==
    /\ eventB' = Last(HistCap, eventB \o evs)
    /\ subs' = Deliver(sb, Len(evs))

\* One transition of controller p: the new heap and the message.
Transition(ps, p, to) ==
    [procs |-> [ps EXCEPT ![p].state = to],
     evs   |-> <<StateEvent(ps[p].pg.Name, ps[p].state, to)>>]

\* Process.Operate(event), by the transition table.
Operate(ps, p, ev) ==
    LET st == ps[p].state IN
    IF ev = "StartEvent" /\ st \in {"Stopped", "Fatal"}
    THEN Transition([ps EXCEPT ![p].retry = 0], p, "Starting")
    ELSE IF ev = "StopEvent" /\ st = "Running"
    THEN Transition(ps, p, "Stopping")
    ELSE [procs |-> ps, evs |-> <<>>]

\* A failed spawn or an unexpected exit: Backoff, or Fatal once the retry
\* counter exceeds StartRetries.
Failure(ps, p) ==
    LET r == ps[p].retry + 1 IN
    Transition([ps EXCEPT ![p].retry = r], p,
               IF r > StartRetries(ps[p].pg) THEN "Fatal" ELSE "Backoff")

\* Supervisor.newProcess: a controller in Stopped; its index is Len + 1.
newProcess(ps, pg) == Append(ps, [pg |-> pg, state |-> "Stopped", retry |-> 0])

\* ------------------------------------------------------------------ Init
IdleLd == [pc |-> "idle", src |-> "none", dup |-> FALSE, same |-> FALSE, pgs |-> <<>>, i |-> 0,
           names |-> <<>>, todo |-> {}, done |-> {}, name |-> "", p |-> 0,
           via |-> "", res |-> "none"]
NotLoaded == [ok |-> FALSE, pgs |-> <<>>]
IdleAd == [pc |-> "idle", pg |-> NoProgram, res |-> "none", saveErr |-> FALSE]
FreeUpd == [pc |-> "free", pg |-> NoProgram, isRunning |-> FALSE, p |-> 0,
            via |-> ""]
IdleCl == [pc |-> "idle", todo |-> {}, done |-> {}, name |-> "", p |-> 0,
           via |-> ""]
NoRequest == [id |-> 0, name |-> "", ev |-> "", status |-> 0]

\* newSupervisorHandler, lines 463-468, before its first loadDB.
InitWith(e) ==
    /\ env = e
    /\ names = <<>>
    /\ pgMap = EmptyMap
    /\ procMap = EmptyMap
    /\ mu = "free"
    /\ eventB = <<>>
    /\ subs = [w \in Waiters |-> -1]
    /\ procs = <<>>
    /\ ld = IdleLd
    /\ ad = IdleAd
    /\ upd = [u \in Updaters |-> FreeUpd]
    /\ lastLoaded = NotLoaded
    /\ cl = IdleCl
    /\ rq = NoRequest
    /\ listeners = 0

Init == InitWith([names |-> {"A"}, load |-> MaxLoads, req |-> MaxReqs, add |-> 0, close |-> 0, up |-> FALSE])

\* ----------------------------------------------------------- stopAndWait
\* A wait loop that returns at its first wake-up, without the IsRunning
\* tests of lines 102 and 106.
stopAndWaitAnyWake(ps, p) == TRUE

\* The condition on which the wait loop returns (lines 102 and 106).
stopAndWaitDone(ps, p) == ~IsRunning(ps, p)

\* Lines 89-98: the result of the entry, "wait" meaning the loop is entered.
stopAndWaitCase(n) ==
    IF n \notin DOMAIN procMap THEN "nosuch"
    ELSE IF ~IsRunning(procs, procMap[n]) THEN "nil"
    ELSE "wait"

\* Lines 96-98: listen on the global broadcaster, then Operate(StopEvent).
stopAndWaitEnter(w, n) ==
    IF stopAndWaitCase(n) = "wait"
    THEN LET r == Operate(procs, procMap[n], "StopEvent") IN
         /\ procs' = r.procs
         /\ broadcastEvent(r.evs, addStatusChangeListener(subs, w))
         /\ listeners' = listeners + 1
    ELSE UNCHANGED <<procs, eventB, subs, listeners>>

\* Lines 99-110: one wake-up of the select, by a message on c (byEvent) or
\* by the one-second timer; the listener table after it.
stopAndWaitWake(w, p, byEvent) ==
    /\ byEvent => subs[w] > 0
    /\ subs' = IF stopAndWaitDone(procs, p) THEN [subs EXCEPT ![w] = -1]
               ELSE IF byEvent THEN [subs EXCEPT ![w] = @ - 1]
               ELSE subs

\* ---------------------------------------------------- addOrUpdateProgram
\* addOrUpdateProgram without the Check of lines 115-117.
addOrUpdateUnchecked(pg) ==
    IF pg.Name \in DOMAIN pgMap
    THEN IF DeepEqual(pgMap[pg.Name], pg) THEN "same" ELSE "update"
    ELSE "insert"

\* Lines 115-122 and 137: what addOrUpdateProgram decides for pg.
addOrUpdateCase(pg) ==
    IF ~Check(pg) THEN "invalid"
    ELSE IF pg.Name \in DOMAIN pgMap
         THEN IF DeepEqual(pgMap[pg.Name], pg) THEN "same" ELSE "update"
         ELSE "insert"

FreeSlots == {u \in Updaters : upd[u].pc = "free"}

\* An update branch that does not remember that the old controller was
\* running, as if IsRunning were read after the stop.
addOrUpdateForgetful(pg) ==
    /\ FreeSlots # {}
    /\ LET u == CHOOSE x \in FreeSlots : \A y \in FreeSlots : x <= y IN
       upd' = [upd EXCEPT ![u] = [FreeUpd EXCEPT !.pc = "stop", !.pg = pg]]
    /\ broadcastEvent(<<UpdateEvent(pg.Name)>>, subs)
    /\ UNCHANGED <<names, pgMap, procMap, procs>>

\* Lines 123-136: broadcast "update", read the old controller and start the
\* goroutine (which runs as the actions Upd... below).
addOrUpdateUpdate(pg) ==
    /\ FreeSlots # {}
    /\ LET u == CHOOSE x \in FreeSlots : \A y \in FreeSlots : x <= y IN
       upd' = [upd EXCEPT ![u] =
                 [FreeUpd EXCEPT !.pc = "stop", !.pg = pg,
                    !.isRunning = IsRunning(procs, procMap[pg.Name])]]
    /\ broadcastEvent(<<UpdateEvent(pg.Name)>>, subs)
    /\ UNCHANGED <<names, pgMap, procMap, procs>>

\* Lines 139-142: register a new program.
addOrUpdateInsert(pg) ==
    /\ Len(procs) < MaxProcs
    /\ names' = Append(names, pg.Name)
    /\ pgMap' = MapSet(pgMap, pg.Name, pg)
    /\ procs' = newProcess(procs, pg)
    /\ procMap' = MapSet(procMap, pg.Name, Len(procs) + 1)
    /\ broadcastEvent(<<AddedEvent(pg.Name)>>, subs)
    /\ UNCHANGED upd

\* ------------------------------------------------------ readConfigFromDB
\* What programs.yml holds when loadDB reads it: unreadable, not YAML, or a
\* list of programs.
Files == {[kind |-> "unreadable", pgs |-> <<>>], [kind |-> "malformed", pgs |-> <<>>]}
         \cup {[kind |-> "yaml", pgs |-> c] : c \in Configs}

HasDuplicate(pgs) ==
    \E i, j \in DOMAIN pgs : i < j /\ pgs[i].Name = pgs[j].Name

\* readConfigFromDB without the uniqueness loop of lines 159-165.
readConfigUnchecked(f) ==
    IF f.kind = "unreadable" THEN [pgs |-> <<>>, err |-> "nil"]
    ELSE IF f.kind = "malformed" THEN [pgs |-> <<>>, err |-> "yaml"]
    ELSE [pgs |-> f.pgs, err |-> "nil"]

\* Lines 150-167.  A failed ReadFile is replaced by empty data, which
\* unmarshals to the empty list.
readConfigFromDB(f) ==
    IF f.kind = "unreadable" THEN [pgs |-> <<>>, err |-> "nil"]
    ELSE IF f.kind = "malformed" THEN [pgs |-> <<>>, err |-> "yaml"]
    ELSE IF HasDuplicate(f.pgs) THEN [pgs |-> <<>>, err |-> "duplicate"]
    ELSE [pgs |-> f.pgs, err |-> "nil"]

\* ---------------------------------------------------------------- loadDB
Visited == {ld.pgs[j].Name : j \in 1..Min(ld.i - 1, Len(ld.pgs))}

\* Line 170, called by newSupervisorHandler (line 469) and hReload (line 270).
LoadLock ==
    /\ ld.pc = "idle" /\ mu = "free"
    /\ env.load > 0
    /\ env' = [env EXCEPT !.load = @ - 1]
    /\ mu' = "loadDB"
    /\ ld' = [IdleLd EXCEPT !.pc = "read"]
    /\ UNCHANGED <<names, pgMap, procMap, eventB, subs, procs, ad, upd, lastLoaded>>
    /\ UNCHANGED <<cl, rq, listeners>>

\* Lines 172-176.  When the loadDB of newSupervisorHandler fails (line 469)
\* the supervisor is not served: no call follows.
LoadRead ==
    /\ ld.pc = "read"
    /\ \E f \in Files :
         LET r == readConfigFromDB(f) IN
         IF r.err # "nil"
         THEN /\ ld' = [ld EXCEPT !.pc = "idle", !.res = r.err,
                                  !.dup = HasDuplicate(f.pgs)]
              /\ mu' = "free"
              /\ env' = IF env.up THEN env
                        ELSE [env EXCEPT !.load = 0, !.req = 0, !.add = 0]
         ELSE /\ ld' = [ld EXCEPT !.pc = "loop", !.src = f.kind, !.pgs = r.pgs,
                                  !.dup = HasDuplicate(f.pgs),
                                  !.same = lastLoaded.ok /\ lastLoaded.pgs = r.pgs,
                                  !.i = 1]
              /\ mu' = mu
              /\ env' = env
    /\ UNCHANGED <<names, pgMap, procMap, eventB, subs, procs, ad, upd, lastLoaded>>
    /\ UNCHANGED <<cl, rq, listeners>>

\* Lines 179-182 and addOrUpdateProgram's lines 115-122 for entry i.
LoadCheck ==
    /\ ld.pc = "loop" /\ ld.i <= Len(ld.pgs)
    /\ LET pg == ld.pgs[ld.i]
           c  == addOrUpdateCase(pg) IN
       ld' = [ld EXCEPT !.names = Append(@, pg.Name),
                        !.pc = IF c \in {"update", "insert"} THEN c ELSE "loop",
                        !.i = IF c \in {"update", "insert"} THEN @ ELSE @ + 1]
    /\ UNCHANGED <<env, names, pgMap, procMap, mu, eventB, subs, procs, ad, upd,
                   lastLoaded>>
    /\ UNCHANGED <<cl, rq, listeners>>

LoadUpdate ==
    /\ ld.pc = "update"
    /\ addOrUpdateUpdate(ld.pgs[ld.i])
    /\ ld' = [ld EXCEPT !.pc = "loop", !.i = @ + 1]
    /\ UNCHANGED <<env, mu, ad, lastLoaded>>
    /\ UNCHANGED <<cl, rq, listeners>>

LoadInsert ==
    /\ ld.pc = "insert"
    /\ addOrUpdateInsert(ld.pgs[ld.i])
    /\ ld' = [ld EXCEPT !.pc = "loop", !.i = @ + 1]
    /\ UNCHANGED <<env, mu, ad, lastLoaded>>
    /\ UNCHANGED <<cl, rq, listeners>>

\* Line 184, and the start of the range over pgMap of line 186.
LoadNames ==
    /\ ld.pc = "loop" /\ ld.i > Len(ld.pgs)
    /\ names' = ld.names
    /\ ld' = [ld EXCEPT !.pc = "del", !.todo = DOMAIN pgMap \ Visited]
    /\ UNCHANGED <<env, pgMap, procMap, mu, eventB, subs, procs, ad, upd, lastLoaded>>
    /\ UNCHANGED <<cl, rq, listeners>>

\* Lines 186-192: the range produces an entry that was not visited (one
\* inserted during the range may or may not be produced), and stopAndWait
\* is entered for it.
LoadDelPick ==
    /\ ld.pc = "del"
    /\ \E n \in (DOMAIN pgMap \ Visited) \ ld.done :
         /\ stopAndWaitEnter(Loader, n)
         /\ ld' = [ld EXCEPT !.name = n,
                             !.p = IF n \in DOMAIN procMap THEN procMap[n] ELSE 0,
                             !.via = IF stopAndWaitCase(n) = "wait" THEN "" ELSE "entry",
                             !.pc = IF stopAndWaitCase(n) = "wait" THEN "wait"
                                    ELSE "delete"]
    /\ UNCHANGED <<env, names, pgMap, procMap, mu, ad, upd, lastLoaded>>
    /\ UNCHANGED <<cl, rq>>

LoadWait(byEvent) ==
    /\ ld.pc = "wait"
    /\ stopAndWaitWake(Loader, ld.p, byEvent)
    /\ ld' = IF stopAndWaitDone(procs, ld.p)
             THEN [ld EXCEPT !.pc = "delete",
                             !.via = IF byEvent THEN "event" ELSE "timer"]
             ELSE ld
    /\ UNCHANGED <<env, names, pgMap, procMap, mu, eventB, procs, ad, upd, lastLoaded>>
    /\ UNCHANGED <<cl, rq, listeners>>

LoadWaitEvent == LoadWait(TRUE)
LoadWaitTimer == LoadWait(FALSE)

\* Lines 193-195.
LoadDelete ==
    /\ ld.pc = "delete"
    /\ procMap' = MapDel(procMap, ld.name)
    /\ pgMap' = MapDel(pgMap, ld.name)
    /\ broadcastEvent(<<DeletedEvent(ld.name)>>, subs)
    /\ ld' = [ld EXCEPT !.pc = "del", !.done = @ \cup {ld.name},
                        !.todo = @ \ {ld.name}, !.p = 0, !.via = ""]
    /\ UNCHANGED <<env, names, mu, procs, ad, upd, lastLoaded>>
    /\ UNCHANGED <<cl, rq, listeners>>

\* Line 197 and the deferred Unlock.
LoadReturn ==
    /\ ld.pc = "del"
    /\ (ld.todo \cap DOMAIN pgMap) \ ld.done = {}
    /\ mu' = "free"
    /\ ld' = [IdleLd EXCEPT !.res = "nil"]
    /\ lastLoaded' = [ok |-> TRUE, pgs |-> ld.pgs]
    /\ env' = [env EXCEPT !.up = TRUE]
    /\ UNCHANGED <<names, pgMap, procMap, eventB, subs, procs, ad, upd>>
    /\ UNCHANGED <<cl, rq, listeners>>

loadDB ==
    \/ LoadLock \/ LoadRead \/ LoadCheck \/ LoadUpdate \/ LoadInsert \/ LoadNames
    \/ LoadDelPick \/ LoadWaitEvent \/ LoadWaitTimer \/ LoadDelete \/ LoadReturn

\* ------------------------------- the goroutine of addOrUpdateProgram
\* Line 128: stopAndWait(origProc.Name) is entered.
UpdStop(u) ==
    /\ upd[u].pc = "stop"
    /\ LET n == upd[u].pg.Name IN
       /\ stopAndWaitEnter(u, n)
       /\ upd' = [upd EXCEPT ![u].p = IF n \in DOMAIN procMap THEN procMap[n] ELSE 0,
                              ![u].via = IF stopAndWaitCase(n) = "wait" THEN ""
                                         ELSE "entry",
                              ![u].pc = IF stopAndWaitCase(n) = "wait" THEN "wait"
                                        ELSE "swap"]
    /\ UNCHANGED <<env, names, pgMap, procMap, mu, ld, ad, lastLoaded>>
    /\ UNCHANGED <<cl, rq>>

UpdWait(u, byEvent) ==
    /\ upd[u].pc = "wait"
    /\ stopAndWaitWake(u, upd[u].p, byEvent)
    /\ upd' = IF stopAndWaitDone(procs, upd[u].p)
              THEN [upd EXCEPT ![u].pc = "swap",
                               ![u].via = IF byEvent THEN "event" ELSE "timer"]
              ELSE upd
    /\ UNCHANGED <<env, names, pgMap, procMap, mu, eventB, procs, ld, ad, lastLoaded>>
    /\ UNCHANGED <<cl, rq, listeners>>

UpdWaitEvent(u) == UpdWait(u, TRUE)
UpdWaitTimer(u) == UpdWait(u, FALSE)

\* Lines 130-135: the new controller replaces the old one in procMap, the
\* new spec is stored, and the new controller is started if the old one
\* was running.
UpdSwap(u) ==
    /\ upd[u].pc = "swap"
    /\ Len(procs) < MaxProcs
    /\ LET pg == upd[u].pg
           np == Len(procs) + 1
           ps == newProcess(procs, pg)
           r  == IF upd[u].isRunning THEN Operate(ps, np, "StartEvent")
                 ELSE [procs |-> ps, evs |-> <<>>] IN
       /\ procMap' = MapSet(procMap, pg.Name, np)
       /\ pgMap' = MapSet(pgMap, pg.Name, pg)
       /\ procs' = r.procs
       /\ broadcastEvent(r.evs, subs)
    /\ upd' = [upd EXCEPT ![u] = FreeUpd]
    /\ UNCHANGED <<env, names, mu, ld, ad, lastLoaded>>
    /\ UNCHANGED <<cl, rq, listeners>>

updateGoroutine ==
    \E u \in Updaters : UpdStop(u) \/ UpdWaitEvent(u) \/ UpdWaitTimer(u) \/ UpdSwap(u)

\* ------------------------------------------- hStartProgram, hStopProgram
\* A handler that answers status 0 whether or not the name is registered.
RequestUnchecked(n, ev) ==
    /\ env.up /\ env.req > 0
    /\ env' = [env EXCEPT !.req = @ - 1]
    /\ IF n \in DOMAIN procMap
       THEN LET r == Operate(procs, procMap[n], ev) IN
            /\ procs' = r.procs
            /\ broadcastEvent(r.evs, subs)
       ELSE UNCHANGED <<procs, eventB, subs>>
    /\ rq' = [id |-> rq.id + 1, name |-> n, ev |-> ev, status |-> 0]
    /\ UNCHANGED <<names, pgMap, procMap, mu, ld, ad, upd, lastLoaded, cl, listeners>>

\* The body of hStartProgram and hStopProgram: look the controller up in
\* procMap, answer status 1 when there is none, else Operate and answer 0.
Request(n, ev) ==
    /\ env.up /\ env.req > 0
    /\ env' = [env EXCEPT !.req = @ - 1]
    /\ IF n \in DOMAIN procMap
       THEN LET r == Operate(procs, procMap[n], ev) IN
            /\ procs' = r.procs
            /\ broadcastEvent(r.evs, subs)
            /\ rq' = [id |-> rq.id + 1, name |-> n, ev |-> ev, status |-> 0]
       ELSE /\ UNCHANGED <<procs, eventB, subs>>
            /\ rq' = [id |-> rq.id + 1, name |-> n, ev |-> ev, status |-> 1]
    /\ UNCHANGED <<names, pgMap, procMap, mu, ld, ad, upd, lastLoaded, cl, listeners>>

\* Lines 340-357.
hStartProgram == \E n \in env.names : Request(n, "StartEvent")
\* Lines 359-376.
hStopProgram == \E n \in env.names : Request(n, "StopEvent")

\* ------------------------------------- the supervised operating-system process
Step(r) ==
    /\ procs' = r.procs
    /\ broadcastEvent(r.evs, subs)
    /\ UNCHANGED <<env, names, pgMap, procMap, mu, ld, ad, upd, lastLoaded>>
    /\ UNCHANGED <<cl, rq, listeners>>

SpawnSucceeded == \E p \in DOMAIN procs :
    procs[p].state = "Starting" /\ Step(Transition(procs, p, "Running"))
SpawnFailed == \E p \in DOMAIN procs :
    procs[p].state = "Starting" /\ Step(Failure(procs, p))
ExitedUnexpectedly == \E p \in DOMAIN procs :
    procs[p].state = "Running" /\ Step(Failure(procs, p))
Terminated == \E p \in DOMAIN procs :
    procs[p].state = "Stopping" /\ Step(Transition(procs, p, "Stopped"))
BackoffElapsed == \E p \in DOMAIN procs :
    procs[p].state = "Backoff" /\ Step(Transition(procs, p, "Starting"))

\* ----------------------------------------------------------- hAddProgram
\* Lines 296-324: the form is parsed and checked, and a program whose name
\* is registered is refused.
hAddBegin ==
    /\ ad.pc = "idle"
    /\ env.up /\ env.add > 0
    /\ env' = [env EXCEPT !.add = @ - 1]
    /\ \E pg \in Program :
         ad' = IF ~Check(pg) THEN [IdleAd EXCEPT !.res = "400"]
               ELSE IF pg.Name \in DOMAIN pgMap THEN [IdleAd EXCEPT !.res = "exists"]
               ELSE [IdleAd EXCEPT !.pc = "call", !.pg = pg]
    /\ UNCHANGED <<names, pgMap, procMap, mu, eventB, subs, procs, ld, upd, lastLoaded>>
    /\ UNCHANGED <<cl, rq, listeners>>

\* Line 325 and addOrUpdateProgram's lines 115-122.
hAddCheck ==
    /\ ad.pc = "call"
    /\ LET c == addOrUpdateCase(ad.pg) IN
       ad' = [ad EXCEPT !.pc = IF c \in {"update", "insert"} THEN c
                                ELSE IF c = "same" THEN "save" ELSE "idle",
                        !.res = IF c = "invalid" THEN "status1" ELSE @]
    /\ UNCHANGED <<env, names, pgMap, procMap, mu, eventB, subs, procs, ld, upd,
                   lastLoaded>>
    /\ UNCHANGED <<cl, rq, listeners>>

\* Lines 123-136 within the handler.  When loadDB has deleted the name since
\* line 118 read pgMap, origProc is nil and line 126 panics after the
\* "update" message was written; net/http ends the request.
hAddUpdate ==
    /\ ad.pc = "update"
    /\ IF ad.pg.Name \in DOMAIN procMap
       THEN /\ addOrUpdateUpdate(ad.pg)
            /\ ad' = [ad EXCEPT !.pc = "save"]
       ELSE /\ broadcastEvent(<<UpdateEvent(ad.pg.Name)>>, subs)
            /\ ad' = [IdleAd EXCEPT !.res = "panic"]
            /\ UNCHANGED <<names, pgMap, procMap, procs, upd>>
    /\ lastLoaded' = NotLoaded
    /\ UNCHANGED <<env, mu, ld>>
    /\ UNCHANGED <<cl, rq, listeners>>

hAddInsert ==
    /\ ad.pc = "insert"
    /\ addOrUpdateInsert(ad.pg)
    /\ ad' = [ad EXCEPT !.pc = "save"]
    /\ lastLoaded' = NotLoaded
    /\ UNCHANGED <<env, mu, ld>>
    /\ UNCHANGED <<cl, rq, listeners>>

\* saveDB, lines 200-208: under mu, marshal programs() and write the file;
\* the write may fail.  hAddProgram (line 331) drops saveDB's result and
\* answers status 0.
saveDB(ok) ==
    /\ mu = "free"
    /\ mu' = "free"
    /\ ad' = [IdleAd EXCEPT !.res = "status0", !.saveErr = ~ok]

hAddSave ==
    /\ ad.pc = "save"
    /\ \E ok \in BOOLEAN : saveDB(ok)
    /\ UNCHANGED <<env, names, pgMap, procMap, eventB, subs, procs, ld, upd,
                   lastLoaded>>
    /\ UNCHANGED <<cl, rq, listeners>>

hAddProgram == hAddBegin \/ hAddCheck \/ hAddUpdate \/ hAddInsert \/ hAddSave

\* ------------------------------------------------------------------ Close
\* Lines 438-443, called by hShutdown (line 258) and on SIGINT/SIGTERM
\* (line 455): the range over procMap starts.  mu is not taken.
CloseBegin ==
    /\ cl.pc = "idle"
    /\ env.up /\ env.close > 0
    /\ env' = [env EXCEPT !.close = @ - 1]
    /\ cl' = [IdleCl EXCEPT !.pc = "range", !.todo = DOMAIN procMap]
    /\ UNCHANGED <<names, pgMap, procMap, mu, eventB, subs, procs, ld, ad, upd,
                   lastLoaded, rq, listeners>>

\* Lines 439-440: the range produces a controller and stopAndWait is
\* entered for its name; it returns at once unless the controller
\* registered under the name is running.
ClosePick ==
    /\ cl.pc = "range"
    /\ \E n \in DOMAIN procMap \ cl.done :
         /\ stopAndWaitEnter(Closer, n)
         /\ cl' = IF stopAndWaitCase(n) = "wait"
                  THEN [cl EXCEPT !.pc = "wait", !.name = n, !.p = procMap[n],
                                  !.via = ""]
                  ELSE [cl EXCEPT !.done = @ \cup {n}, !.name = n,
                                  !.p = procMap[n], !.via = "entry"]
    /\ UNCHANGED <<env, names, pgMap, procMap, mu, ld, ad, upd, lastLoaded, rq>>

CloseWait(byEvent) ==
    /\ cl.pc = "wait"
    /\ stopAndWaitWake(Closer, cl.p, byEvent)
    /\ cl' = IF stopAndWaitDone(procs, cl.p)
             THEN [cl EXCEPT !.pc = "range", !.done = @ \cup {cl.name},
                             !.via = IF byEvent THEN "event" ELSE "timer"]
             ELSE cl
    /\ UNCHANGED <<env, names, pgMap, procMap, mu, eventB, procs, ld, ad, upd,
                   lastLoaded, rq, listeners>>

CloseWaitEvent == CloseWait(TRUE)
CloseWaitTimer == CloseWait(FALSE)

\* Line 442: the range is over and Close returns.
CloseReturn ==
    /\ cl.pc = "range"
    /\ (cl.todo \cap DOMAIN procMap) \ cl.done = {}
    /\ cl' = [cl EXCEPT !.pc = "closed"]
    /\ UNCHANGED <<env, names, pgMap, procMap, mu, eventB, subs, procs, ld, ad, upd,
                   lastLoaded, rq, listeners>>

Close == CloseBegin \/ ClosePick \/ CloseWaitEvent \/ CloseWaitTimer \/ CloseReturn

\* ------------------------------------------------------- specifications
Next ==
    \/ loadDB
    \/ updateGoroutine
    \/ hStartProgram
    \/ hStopProgram
    \/ SpawnSucceeded
    \/ SpawnFailed
    \/ ExitedUnexpectedly
    \/ Terminated
    \/ BackoffElapsed

\* Reloads, the update goroutines, start and stop requests and the
\* supervised processes.
Spec == Init /\ [][Next]_vars

\* The same with fewer calls, and the scheduling the Go runtime and the
\* operating system give: a runnable goroutine runs, a timer fires, a
\* signalled process terminates, a spawn succeeds or fails, a retry delay
\* elapses.  Requests and unexpected exits are left to the environment.
InitFair == InitWith([names |-> {"A"}, load |-> FairLoads, req |-> FairReqs, add |-> 0, close |-> 0, up |-> FALSE])

Fairness ==
    /\ WF_vars(loadDB)
    /\ \A u \in Updaters :
         WF_vars(UpdStop(u) \/ UpdWaitEvent(u) \/ UpdWaitTimer(u) \/ UpdSwap(u))
    /\ WF_vars(SpawnSucceeded \/ SpawnFailed)
    /\ WF_vars(Terminated)
    /\ WF_vars(BackoffElapsed)

FairSpec == InitFair /\ [][Next]_vars /\ Fairness

\* Two program names, so that a programs.yml can list two programs.
InitTwo == InitWith([names |-> {"A", "B"}, load |-> TwoLoads, req |-> TwoReqs, add |-> 0, close |-> 0, up |-> FALSE])

SpecTwo == InitTwo /\ [][Next]_vars

\* With add requests.
InitAdd == InitWith([names |-> {"A"}, load |-> AddLoads, req |-> AddReqs, add |-> MaxAdds, close |-> 0, up |-> FALSE])

NextAdd == Next \/ hAddProgram

SpecAdd == InitAdd /\ [][NextAdd]_vars

\* With a shutdown.
InitClose ==
    InitWith([names |-> {"A"}, load |-> CloseLoads, req |-> CloseReqs, add |-> 0,
              close |-> 1, up |-> FALSE])

NextClose == Next \/ Close

SpecClose == InitClose /\ [][NextClose]_vars

\* ---------------------------------------------------------------- claims
Quiescent ==
    /\ ld.pc = "idle"
    /\ ad.pc = "idle"
    /\ \A u \in Updaters : upd[u].pc = "free"

\* C1: in every state with no loadDB, add request or update in flight, the
\* names in names, the keys of pgMap and the keys of procMap are the same
\* set.
C1_RegistryKeysAgree ==
    Quiescent => /\ Range(names) = DOMAIN pgMap
                 /\ DOMAIN pgMap = DOMAIN procMap

\* C2: a loadDB that reads a programs.yml with two entries of the same
\* name returns the duplicate-name error from its read step, without
\* reconciling anything: neither that step nor the locking step before it
\* changes names, pgMap, procMap, any controller or the event stream.
C2_DuplicateRejected ==
    [][/\ (ld.pc = "read" /\ ld' # ld /\ ld'.dup)
            => (ld'.pc = "idle" /\ ld'.res = "duplicate")
       /\ (ld' # ld /\ ld'.pc \in {"idle", "read"} /\ ld.pc \in {"idle", "read"})
            => UNCHANGED <<names, pgMap, procMap, procs, eventB>>]_vars

\* A loadDB call has returned the duplicate-name error while a program is
\* registered.
C2_Witness ==
    /\ ld.pc = "idle" /\ ld.res = "duplicate"
    /\ DOMAIN pgMap # {} /\ eventB # <<>>

\* C3: every stopAndWait that entered its wait loop, in loadDB or in an
\* update goroutine, eventually leaves it.
C3_StopAndWaitReturns ==
    /\ (ld.pc = "wait") ~> (ld.pc # "wait")
    /\ \A u \in Updaters : (upd[u].pc = "wait") ~> (upd[u].pc # "wait")

\* C4: the step by which stopAndWait returns nil, at its entry (line 94),
\* on a message (line 103) or on the timer (line 107), leaves the
\* controller it was called for neither Starting nor Running.
C4_ReturnsOnlyWhenNotRunning ==
    [][/\ (ld.pc \in {"del", "wait"} /\ ld'.pc = "delete" /\ ld'.p # 0)
            => procs'[ld'.p].state \notin {"Starting", "Running"}
       /\ \A u \in Updaters :
            (upd[u].pc \in {"stop", "wait"} /\ upd'[u].pc = "swap" /\ upd'[u].p # 0)
                => procs'[upd'[u].p].state \notin {"Starting", "Running"}]_vars

\* loadDB's stopAndWait has returned on a message, after the controller it
\* had found running went to Stopped.
C4_Witness ==
    /\ ld.pc = "delete" /\ ld.via = "event"
    /\ procs[ld.p].state = "Stopped"

\* C5: a loadDB that reads the list the last loadDB reconciled changes
\* neither names, pgMap, procMap nor any controller, and writes no event.
C5_ReloadIsIdempotent ==
    [][(ld.same /\ ld' # ld)
          => (registry' = registry /\ procs' = procs /\ eventB' = eventB)]_vars

\* C6: a loadDB that could not read programs.yml removes no registered
\* program: every name in pgMap and in procMap stays there.
C6_ReadFailureKeepsRegistry ==
    [][(ld' # ld /\ (ld.src = "unreadable" \/ ld'.src = "unreadable"))
          => /\ DOMAIN pgMap \subseteq DOMAIN pgMap'
             /\ DOMAIN procMap \subseteq DOMAIN procMap']_vars

UpdateTrace(n) ==
    <<UpdateEvent(n),
      StateEvent(n, "Running", "Stopping"),
      StateEvent(n, "Stopping", "Stopped"),
      StateEvent(n, "Stopped", "Starting"),
      StateEvent(n, "Starting", "Running")>>

\* C7: when the event stream ends with "n update" followed by the four
\* transitions Running -> Stopping -> Stopped -> Starting -> Running of n,
\* the controller registered for n is Running, it is the controller of the
\* spec in pgMap, and the update has completed.
C7_UpdateWhileRunning ==
    \A n \in env.names :
        eventB = UpdateTrace(n)
            => /\ n \in DOMAIN procMap /\ n \in DOMAIN pgMap
               /\ procs[procMap[n]].state = "Running"
               /\ procs[procMap[n]].pg = pgMap[n]
               /\ \A u \in Updaters : upd[u].pc = "free" \/ upd[u].pg.Name # n

\* C8: loadDB writes "n deleted" only while the controller it stopped is
\* neither Starting nor Running, and when loadDB returns every name it
\* deleted is absent from pgMap, procMap and names.
C8_DeletedAfterStop ==
    [][/\ (ld.pc = "delete" /\ ld'.pc = "del" /\ ld.p # 0)
            => procs[ld.p].state \notin {"Starting", "Running"}
       /\ (ld.pc = "del" /\ ld'.pc = "idle")
            => \A n \in ld.done :
                 /\ n \notin DOMAIN pgMap'
                 /\ n \notin DOMAIN procMap'
                 /\ n \notin Range(names')]_vars

\* C9: no worker holds mu while it is in the wait loop of stopAndWait.
C9_NoLockWhileWaiting ==
    ld.pc = "wait" => mu # "loadDB"

\* C10: every step that changes names, pgMap or procMap is a step of the
\* worker that holds mu.
C10_WritesUnderLock ==
    [][registry' # registry => (mu = "loadDB" /\ ld' # ld)]_vars

\* C11: when Close returns, no program that was registered when Close was
\* called has its registered controller in Starting or Running.
C11_ClosedMeansStopped ==
    [][(cl.pc = "range" /\ cl'.pc = "closed")
          => \A n \in cl.todo \cap DOMAIN procMap' :
                ~IsRunning(procs', procMap'[n])]_vars

\* The names of the entries of pgs that pass Check, in the order of pgs.
DesiredNames(pgs) ==
    LET ok == SelectSeq(pgs, Check) IN [j \in 1..Len(ok) |-> ok[j].Name]

\* C12: when loadDB returns nil, names is the sequence of the names of the
\* entries it read that pass Check, in the order of the list.
C12_NamesAreDesiredNames ==
    [][(ld.pc = "del" /\ ld'.pc = "idle") => names' = DesiredNames(ld.pgs)]_vars

\* C13: the steps loadDB takes for an entry that fails Check leave names,
\* pgMap, procMap, every controller and the event stream as they are and
\* start no update; addOrUpdateProgram only reports the error and the loop
\* goes on to the next entry.  hAddProgram answers 400 for such a program
\* without changing any of them, and never calls addOrUpdateProgram for it.
C13_InvalidSpecRejected ==
    [][/\ (ld' # ld /\ ld.pc \in {"loop", "update", "insert"}
             /\ ld.i <= Len(ld.pgs) /\ ~Check(ld.pgs[ld.i]))
            => /\ UNCHANGED <<names, pgMap, procMap, procs, eventB, upd>>
               /\ addOrUpdateCase(ld.pgs[ld.i]) = "invalid"
               /\ ld'.pc = "loop" /\ ld'.i = ld.i + 1
       /\ (ad' # ad /\ ad'.res = "400")
            => /\ UNCHANGED <<names, pgMap, procMap, procs, eventB, upd>>
               /\ ad'.pc = "idle"
       /\ ad'.pc # "idle" => Check(ad'.pg)]_vars

\* loadDB has passed over an entry that fails Check and whose name is
\* registered.
C13_Witness ==
    /\ ld.pc = "loop" /\ ld.i > 1
    /\ ~Check(ld.pgs[ld.i - 1])
    /\ ld.pgs[ld.i - 1].Name \in DOMAIN pgMap
    /\ eventB # <<>>

\* C14: a start or stop request for a name that is not in procMap answers
\* status 1 and changes neither names, pgMap, procMap, any controller nor
\* the event stream; for a name in procMap it answers status 0, leaves the
\* registry alone and applies the one event to the controller procMap
\* holds for the name, and to no other.
C14_StartStopByName ==
    [][rq' # rq
          => IF rq'.name \notin DOMAIN procMap
             THEN /\ rq'.status = 1
                  /\ UNCHANGED <<names, pgMap, procMap, procs, eventB>>
             ELSE LET p == procMap[rq'.name]
                      r == Operate(procs, p, rq'.ev) IN
                  /\ rq'.status = 0
                  /\ UNCHANGED <<names, pgMap, procMap>>
                  /\ procs' = r.procs
                  /\ \A q \in DOMAIN procs : q # p => procs'[q] = procs[q]
                  /\ eventB' = Last(HistCap, eventB \o r.evs)]_vars

\* A request for a name that loadDB has deleted was answered not-found,
\* while the deleted controller still exists.
C14_Witness ==
    /\ rq.id > 0 /\ rq.status = 1
    /\ rq.name \notin DOMAIN procMap
    /\ procs # <<>>

\* C15: the update branch records whether the registered controller is
\* running, and the goroutine's last step registers a new controller for
\* the new spec that it leaves Starting if that record is true and
\* Stopped, without any event, if it is false.
C15_RestartIffWasRunning ==
    [][\A u \in Updaters :
         /\ (upd[u].pc = "free" /\ upd'[u].pc = "stop")
              => upd'[u].isRunning = IsRunning(procs, procMap[upd'[u].pg.Name])
         /\ (upd[u].pc = "swap" /\ upd'[u].pc = "free")
              => LET np == Len(procs) + 1 IN
                 /\ Len(procs') = np
                 /\ procMap'[upd[u].pg.Name] = np
                 /\ procs'[np].pg = upd[u].pg
                 /\ procs'[np].state = IF upd[u].isRunning THEN "Starting"
                                       ELSE "Stopped"
                 /\ ~upd[u].isRunning => eventB' = eventB]_vars

\* After the only request so far, the first controller of n was stopped
\* by an update and the controller that replaced it was started.
C15_Witness ==
    \E n \in DOMAIN procMap :
        /\ rq.id = 1 /\ Len(procs) = 2 /\ procMap[n] = 2
        /\ procs[2].state = "Starting"
        /\ Len(eventB) >= 2
        /\ eventB[Len(eventB) - 1] = StateEvent(n, "Stopping", "Stopped")
        /\ eventB[Len(eventB)] = StateEvent(n, "Stopped", "Starting")

\* C16: a name that is in neither pgMap nor procMap enters them only by the
\* insert of a loadDB or of an hAddProgram that declares it; in particular
\* a name loadDB has deleted is not brought back by an update goroutine.
C16_DeletedStaysDeleted ==
    [][\A n \in env.names :
         (/\ n \notin DOMAIN pgMap /\ n \notin DOMAIN procMap
          /\ (n \in DOMAIN pgMap' \/ n \in DOMAIN procMap'))
            => \/ ld.pc = "insert" /\ ld' # ld /\ ld.pgs[ld.i].Name = n
               \/ ad.pc = "insert" /\ ad' # ad /\ ad.pg.Name = n]_vars

\* C17: a controller that procMap does not reference, having been
\* replaced by an update or removed by a delete, is neither Starting nor
\* Running.
C17_NoOrphanRuns ==
    \A p \in DOMAIN procs :
        (\A n \in DOMAIN procMap : procMap[n] # p) => ~IsRunning(procs, p)

\* C18: when no loadDB and no update goroutine is running, every valid
\* entry of the list the last loadDB reconciled is the spec pgMap holds
\* for its name, and the controller procMap holds was built from it.
C18_LastLoadWins ==
    (Quiescent /\ lastLoaded.ok)
        => \A i \in DOMAIN lastLoaded.pgs :
             LET pg == lastLoaded.pgs[i] IN
             Check(pg) => /\ pg.Name \in DOMAIN pgMap
                          /\ pg.Name \in DOMAIN procMap
                          /\ pgMap[pg.Name] = pg
                          /\ procs[procMap[pg.Name]].pg = pg

\* C19: names never holds the same name at two positions.
C19_NamesDistinct ==
    \A i, j \in DOMAIN names : i # j => names[i] # names[j]

\* C20: eventB has no more listeners than there are stopAndWait calls in
\* their wait loop (no event connection is open in these behaviours).
C20_ListenersReleased ==
    listeners <= Cardinality({w \in Waiters : subs[w] >= 0})

====
